---- MODULE Spec2Model ----
(***************************************************************************)
(* Model of the Apple Xserve front panel USB driver (src/driver.c).        *)
(*                                                                         *)
(* One struct xserve_fp ("Device Session") is allocated per probed         *)
(* interface.  The model follows probe, disconnect, open, release, read,  *)
(* write, ioctl and the interrupt URB completion handler, with the         *)
(* interleavings the kernel allows between them.                           *)
(***************************************************************************)
EXTENDS Integers, Sequences, FiniteSets, TLC

(* ------------------------------ bounds -------------------------------- *)
NumIntf == 2          \* USB interfaces (one minor each) that can be probed
NumCallers == 2       \* user contexts, each owning one struct file
MaxEndpoints == 3     \* endpoints listed by an interface descriptor
MaxPacket == 2        \* largest wMaxPacketSize a descriptor announces
MaxLen == 2           \* largest count passed to read()/write()
MaxRx == 3            \* bytes the simulated device records per session

Intf == 1..NumIntf
Callers == 1..NumCallers
NULL == 0

(* Return values are named by their errno as in the source; the            *)
(* specification's error names are given with the operations.              *)

(* --------------------------- descriptors ------------------------------ *)
(* An endpoint descriptor: transfer type + direction and wMaxPacketSize.   *)
(* bEndpointAddress is the direction bit (0x80 for IN) plus the endpoint   *)
(* number, which is the position in the descriptor (never 0: endpoint 0 is *)
(* the control endpoint and is not listed).                                *)
EndpointKinds == {"bulk_in", "bulk_out", "int_in"}
Endpoint == [kind : EndpointKinds, maxp : 1..MaxPacket]
DirIn == 128
EndpointAddress(ep, k) == IF ep.kind = "bulk_out" THEN k ELSE DirIn + k

SeqsUpTo(S, n) == UNION {[1..m -> S] : m \in 0..n}
Descriptors == SeqsUpTo(Endpoint, MaxEndpoints)

(* What can go wrong during one probe: nothing, kzalloc of the device      *)
(* structure, the kmalloc made for endpoint number idx, usb_register_dev,  *)
(* usb_alloc_urb, or the first usb_submit_urb.                             *)
ProbeFaults ==
    [at : {"none", "kzalloc", "register", "alloc_urb", "submit"}, idx : {0}]
    \cup [at : {"kmalloc"}, idx : 1..MaxEndpoints]

(* ---------------------------- the state ------------------------------- *)
VARIABLES
    dev,         \* dev[i]: the struct xserve_fp allocated by probe of interface i
    intfdata,    \* intfdata[i]: usb_get_intfdata(interface i), NULL or i
    registered,  \* registered[i]: minor of interface i is in the USB minor table
    probeRet,    \* probeRet[i]: "unset" or the return value of probe
    probed,      \* probed[i]: what probe was given (descriptor lacked a bulk
                 \*            endpoint, an early allocation was made to fail)
    udevRef,     \* udevRef[i]: references this driver holds on the usb_device
    lost,        \* lost[i]: live kmalloc buffers no pointer refers to any more
    urb,         \* urb[i]: the interrupt URB (the listener) of interface i
    dpc,         \* dpc[i]: position of disconnect on interface i
    io_mutex,    \* io_mutex[i]: caller holding dev[i].io_mutex, or NULL
    pc,          \* pc[c]: position of caller c inside its system call
    op,          \* op[c]: the system call caller c is in
    late,        \* late[c]: the call was issued after disconnect had begun
    handle,      \* handle[c]: file->private_data of caller c, NULL or i
    arg,         \* arg[c]: count (read, write) or value (ioctl) of the call
    prog,        \* prog[c]: bytes moved so far by the transfer of the call
    tmp,         \* tmp[c]: content of the transient buffer of write, NULL if none
    xfers,       \* xfers[c]: bus transfers issued by the call
    res,         \* res[c]: [ret, val, data] the call hands back to its caller
    devRx,       \* devRx[i]: bytes received on bulk-out since the pipe was last quiet
    bulkData,    \* bulkData[i]: whose transfer last filled dev[i].bulk_in_buffer
    devValue     \* devValue[i]: value last set in the simulated device

vars == <<dev, intfdata, registered, probeRet, probed, udevRef, lost, urb, dpc,
          io_mutex, pc, op, late, handle, arg, prog, tmp, xfers, res,
          devRx, bulkData, devValue>>

lifecycleVars == <<dev, intfdata, registered, probeRet, probed, udevRef, lost,
                   dpc>>
callVars == <<pc, op, late, handle, arg, prog, tmp, xfers, res>>
deviceVars == <<devRx, bulkData, devValue>>

(* Nothing handed back yet.  ret is "OK" or an errno, val the byte count or *)
(* status value returned, data the origin of the bytes a read copied out.   *)
NoRes == [ret |-> "none", val |-> 0, data |-> NULL]

(* struct xserve_fp right after kzalloc and the initialisation of lines    *)
(* 128-135.  mem is the state of the allocation itself.                    *)
ZeroDev ==
    [mem |-> "live",
     bulk_in_buffer |-> "null", bulk_in_size |-> 0, bulk_in_endpointAddr |-> 0,
     bulk_out_endpointAddr |-> 0,
     irq_buffer |-> "null", irq_buffer_size |-> 0, irq_endpointAddr |-> 0,
     irq_urb |-> "null"]

NoDev == [ZeroDev EXCEPT !.mem = "none"]

(* The interrupt URB.  mem: "none" (never allocated), "live", "freed" (the   *)
(* driver called usb_free_urb).  st: "idle" (not submitted), "submitted"    *)
(* (outstanding on the bus), "running" (given back, completion handler      *)
(* invoked and not yet returned).  status is urb->status of the last        *)
(* completion, reject is set by usb_kill_urb, subs counts the               *)
(* usb_submit_urb calls of the current handler invocation.                  *)
NoUrb == [mem |-> "none", st |-> "idle", status |-> "ok", reject |-> FALSE,
          subs |-> 0]

Init ==
    /\ dev = [i \in Intf |-> NoDev]
    /\ intfdata = [i \in Intf |-> NULL]
    /\ registered = [i \in Intf |-> FALSE]
    /\ probeRet = [i \in Intf |-> "unset"]
    /\ probed = [i \in Intf |-> [lacks |-> FALSE, nomem |-> FALSE]]
    /\ udevRef = [i \in Intf |-> 0]
    /\ lost = [i \in Intf |-> 0]
    /\ urb = [i \in Intf |-> NoUrb]
    /\ dpc = [i \in Intf |-> "none"]
    /\ io_mutex = [i \in Intf |-> NULL]
    /\ pc = [c \in Callers |-> "idle"]
    /\ op = [c \in Callers |-> "none"]
    /\ late = [c \in Callers |-> FALSE]
    /\ handle = [c \in Callers |-> NULL]
    /\ arg = [c \in Callers |-> 0]
    /\ prog = [c \in Callers |-> 0]
    /\ tmp = [c \in Callers |-> NULL]
    /\ xfers = [c \in Callers |-> 0]
    /\ res = [c \in Callers |-> NoRes]
    /\ devRx = [i \in Intf |-> <<>>]
    /\ bulkData = [i \in Intf |-> NULL]
    /\ devValue = [i \in Intf |-> 0]

(* ============================== probe ================================= *)
(* Lines 139-160: the endpoint loop.  st = [d, lost, err]: the structure,   *)
(* the buffers leaked so far and whether a kmalloc failed (goto error).     *)
(* A second endpoint of a kind overwrites size, address and buffer pointer. *)
RECURSIVE ScanEndpoints(_, _, _, _)
ScanEndpoints(st, desc, k, fault) ==
    IF k > Len(desc) THEN st
    ELSE
      LET ep == desc[k]
          failHere == fault.at = "kmalloc" /\ fault.idx = k
          newbuf == IF failHere THEN "null" ELSE "live"
      IN  CASE ep.kind = "bulk_in" ->
                 LET d1 == [st.d EXCEPT !.bulk_in_size = ep.maxp,
                                        !.bulk_in_endpointAddr = EndpointAddress(ep, k),
                                        !.bulk_in_buffer = newbuf]
                     l1 == st.lost + IF st.d.bulk_in_buffer = "live" THEN 1 ELSE 0
                 IN  IF failHere THEN [d |-> d1, lost |-> l1, err |-> TRUE]
                     ELSE ScanEndpoints([d |-> d1, lost |-> l1, err |-> FALSE],
                                        desc, k + 1, fault)
            [] ep.kind = "bulk_out" ->
                 ScanEndpoints([st EXCEPT !.d.bulk_out_endpointAddr =
                                              EndpointAddress(ep, k)],
                               desc, k + 1, fault)
            [] ep.kind = "int_in" ->
                 LET d1 == [st.d EXCEPT !.irq_buffer_size = ep.maxp,
                                        !.irq_endpointAddr = EndpointAddress(ep, k),
                                        !.irq_buffer = newbuf]
                     l1 == st.lost + IF st.d.irq_buffer = "live" THEN 1 ELSE 0
                 IN  IF failHere THEN [d |-> d1, lost |-> l1, err |-> TRUE]
                     ELSE ScanEndpoints([d |-> d1, lost |-> l1, err |-> FALSE],
                                        desc, k + 1, fault)

(* Variant: the check of line 162 looks at the bulk-in endpoint only.       *)
HasBulkInOnly(d) == d.bulk_in_endpointAddr # 0

(* Line 162: both bulk endpoints were found.                                *)
HasBulkPair(d) == d.bulk_in_endpointAddr # 0 /\ d.bulk_out_endpointAddr # 0

(* Variant: probe never sets up the interrupt URB.                          *)
HasIrqIgnored(d) == FALSE

(* Line 181: an interrupt endpoint is available.                            *)
HasIrq(d) == d.irq_buffer # "null" /\ d.irq_endpointAddr # 0

(* kfree(p): a live allocation becomes freed, kfree(NULL) does nothing, and *)
(* kfree of a freed allocation is a double free.                            *)
Kfree(p) == IF p = "live" THEN "freed" ELSE IF p = "freed" THEN "double" ELSE p

(* kfree(dev) after kfree of its two buffers (lines 214-217, 235-237).  The  *)
(* content of the freed structure is indeterminate; the model keeps only    *)
(* what became of the three allocations.                                    *)
FreeDev(d) ==
    [ZeroDev EXCEPT !.mem = "freed",
                    !.bulk_in_buffer = Kfree(d.bulk_in_buffer),
                    !.irq_buffer = Kfree(d.irq_buffer)]

(* Lines 210-218, the error label: frees the URB if the pointer is set, the *)
(* two buffers and the structure.  It neither drops the usb_get_dev         *)
(* reference of line 128 nor touches the interface data or the minor.       *)
ProbeError(r, retval) ==
    [r EXCEPT !.d = FreeDev(r.d),
              !.urbmem = IF r.d.irq_urb # "null" THEN "freed" ELSE r.urbmem,
              !.ret = retval]

(* Variant: the pointer to the freed URB is left in the structure.          *)
UrbPointerKept == "set"

(* Line 200: dev->irq_urb = NULL after the usb_free_urb of line 199.        *)
UrbPointerCleared == "null"

(* Lines 113-219 for a descriptor and a fault: the outcome of probe as a    *)
(* record [d, lost, ref, intfdata, registered, urbmem, urbst, ret].         *)
ProbeOutcome(desc, fault) ==
    LET r0 == [d |-> NoDev, lost |-> 0, ref |-> 0, intfdata |-> FALSE,
               registered |-> FALSE, urbmem |-> "none", urbst |-> "idle",
               ret |-> "unset"]
    IN
    IF fault.at = "kzalloc" THEN [r0 EXCEPT !.ret = "ENOMEM"]
    ELSE
      LET sc == ScanEndpoints([d |-> ZeroDev, lost |-> 0, err |-> FALSE],
                              desc, 1, fault)
          r1 == [r0 EXCEPT !.d = sc.d, !.lost = sc.lost, !.ref = 1]
      IN
      IF sc.err THEN ProbeError(r1, "ENOMEM")
      ELSE IF ~HasBulkPair(sc.d) THEN ProbeError(r1, "ENODEV")
      ELSE IF fault.at = "register" THEN ProbeError(r1, "EXFULL")
      ELSE
        LET r2 == [r1 EXCEPT !.intfdata = TRUE, !.registered = TRUE]
        IN
        IF ~HasIrq(sc.d) THEN [r2 EXCEPT !.ret = "OK"]
        ELSE IF fault.at = "alloc_urb" THEN ProbeError(r2, "ENOMEM")
        ELSE IF fault.at = "submit"
             THEN [r2 EXCEPT !.d.irq_urb = UrbPointerCleared,
                             !.urbmem = "freed", !.ret = "OK"]
             ELSE [r2 EXCEPT !.d.irq_urb = "set", !.urbmem = "live",
                             !.urbst = "submitted", !.ret = "OK"]

(* A descriptor without a bulk-in or without a bulk-out endpoint.           *)
Has(desc, kind) == \E k \in DOMAIN desc : desc[k].kind = kind
LacksBulk(desc) == ~Has(desc, "bulk_in") \/ ~Has(desc, "bulk_out")

(* The fault makes an allocation fail before the check of line 162.         *)
AllocFails(desc, fault) ==
    \/ fault.at = "kzalloc"
    \/ /\ fault.at = "kmalloc"
       /\ fault.idx \in DOMAIN desc
       /\ desc[fault.idx].kind \in {"bulk_in", "int_in"}

(* xserve_fp_probe on interface i for one descriptor and one fault; each    *)
(* interface is probed once.  When probe returns an error the USB core      *)
(* unbinds the interface and clears its interface data; it knows nothing of *)
(* the minor, which stays taken if probe did not give it back.              *)
ProbeStep(i, desc, fault) ==
    /\ probeRet[i] = "unset"
    /\ LET r == ProbeOutcome(desc, fault)
       IN  /\ dev' = [dev EXCEPT ![i] = r.d]
           /\ lost' = [lost EXCEPT ![i] = r.lost]
           /\ udevRef' = [udevRef EXCEPT ![i] = r.ref]
           /\ intfdata' = [intfdata EXCEPT ![i] = IF r.intfdata /\ r.ret = "OK"
                                                   THEN i ELSE NULL]
           /\ registered' = [registered EXCEPT ![i] = r.registered]
           /\ urb' = [urb EXCEPT ![i].mem = r.urbmem, ![i].st = r.urbst]
           /\ probeRet' = [probeRet EXCEPT ![i] = r.ret]
           /\ probed' = [probed EXCEPT ![i] = [lacks |-> LacksBulk(desc),
                                               nomem |-> AllocFails(desc, fault)]]
    /\ UNCHANGED <<dpc, io_mutex, callVars, deviceVars>>

(* The descriptor and the fault are drawn from the given sets.              *)
ProbeWith(i, descs, faults) ==
    \E desc \in descs, fault \in faults : ProbeStep(i, desc, fault)

(* ============================ disconnect ============================== *)
(* Variant: usb_unlink_urb in place of usb_kill_urb, which does not wait.   *)
UnlinkUrbDone(u) == TRUE

(* usb_kill_urb returns once the URB is neither outstanding nor in its      *)
(* completion handler.                                                      *)
KillUrbDone(u) == u.st \notin {"submitted", "running"}

(* Lines 224-231 up to the point where usb_kill_urb blocks: the interface   *)
(* data is cleared, the minor is given back, and if there is a URB it is    *)
(* marked rejecting and unlinked, which gives it back with -ENOENT.         *)
DisconnectBegin(i) ==
    /\ probeRet[i] = "OK"
    /\ dpc[i] = "none"
    /\ intfdata' = [intfdata EXCEPT ![i] = NULL]
    /\ registered' = [registered EXCEPT ![i] = FALSE]
    /\ urb' = IF dev[i].irq_urb # "null"
              THEN [urb EXCEPT ![i].reject = TRUE,
                               ![i].st = IF @ = "submitted" THEN "running" ELSE @,
                               ![i].status = IF urb[i].st = "submitted"
                                             THEN "ENOENT" ELSE @,
                               ![i].subs = IF urb[i].st = "submitted" THEN 0 ELSE @]
              ELSE urb
    /\ dpc' = [dpc EXCEPT ![i] = "kill"]
    /\ UNCHANGED <<dev, probeRet, probed, udevRef, lost, io_mutex, callVars,
                   deviceVars>>

(* Lines 231-237 once usb_kill_urb has returned: free the URB, drop the     *)
(* device reference, free both buffers and the structure.  The mutex and    *)
(* the bulk-in buffer are gone with their memory, and the unplugged device  *)
(* with what it had received.                                               *)
DisconnectFinish(i) ==
    /\ dpc[i] = "kill"
    /\ dev[i].irq_urb # "null" => KillUrbDone(urb[i])
    /\ urb' = IF dev[i].irq_urb # "null" THEN [urb EXCEPT ![i].mem = Kfree(@)] ELSE urb
    /\ udevRef' = [udevRef EXCEPT ![i] = @ - 1]
    /\ dev' = [dev EXCEPT ![i] = FreeDev(@)]
    /\ dpc' = [dpc EXCEPT ![i] = "done"]
    /\ io_mutex' = [io_mutex EXCEPT ![i] = NULL]
    /\ devRx' = [devRx EXCEPT ![i] = <<>>]
    /\ bulkData' = [bulkData EXCEPT ![i] = NULL]
    /\ devValue' = [devValue EXCEPT ![i] = 0]
    /\ UNCHANGED <<intfdata, registered, probeRet, probed, lost, callVars>>

(* ===================== interrupt URB completion ======================= *)
(* The host controller gives back the outstanding URB with a status and     *)
(* invokes xserve_fp_irq.                                                   *)
IrqComplete(i) ==
    /\ urb[i].st = "submitted"
    /\ \E s \in {"ok", "EPROTO"} :
         urb' = [urb EXCEPT ![i].st = "running", ![i].status = s, ![i].subs = 0]
    /\ UNCHANGED <<lifecycleVars, io_mutex, callVars, deviceVars>>

(* Variant: the handler does not look at urb->status.                       *)
IrqNeverStops(u) == FALSE

(* Line 93: a completion with a non-zero status returns at once.            *)
IrqStops(u) == u.status # "ok"

(* Variant: the handler runs only while nobody holds the mutex.             *)
IrqWaitsForMutex(i) == io_mutex[i] = NULL

(* Lines 88-110 take no lock: the handler runs whatever the mutex is.       *)
IrqMayRun(i) == TRUE

(* Lines 88-110.  On success the handler calls usb_submit_urb once; the     *)
(* call fails while usb_kill_urb rejects the URB and may fail otherwise.    *)
XserveFpIrq(i) ==
    /\ urb[i].st = "running"
    /\ IrqMayRun(i)
    /\ IF IrqStops(urb[i])
       THEN urb' = [urb EXCEPT ![i].st = "idle"]
       ELSE \E accepted \in BOOLEAN :
              urb' = [urb EXCEPT ![i].subs = @ + 1,
                                 ![i].st = IF accepted /\ ~urb[i].reject
                                           THEN "submitted" ELSE "idle"]
    /\ UNCHANGED <<lifecycleVars, io_mutex, callVars, deviceVars>>

(* ========================= system calls =============================== *)
(* A system call that has finished stays at pc = "ret" with its result      *)
(* until the caller is back in user space.                                  *)
Err(e) == [NoRes EXCEPT !.ret = e]
Ok(v) == [NoRes EXCEPT !.ret = "OK", !.val = v]

Finish(c, r) ==
    /\ pc' = [pc EXCEPT ![c] = "ret"]
    /\ res' = [res EXCEPT ![c] = r]
    /\ arg' = [arg EXCEPT ![c] = 0]
    /\ prog' = [prog EXCEPT ![c] = 0]

Return(c) ==
    /\ pc[c] = "ret"
    /\ pc' = [pc EXCEPT ![c] = "idle"]
    /\ op' = [op EXCEPT ![c] = "none"]
    /\ late' = [late EXCEPT ![c] = FALSE]
    /\ xfers' = [xfers EXCEPT ![c] = 0]
    /\ res' = [res EXCEPT ![c] = NoRes]
    /\ UNCHANGED <<lifecycleVars, urb, io_mutex, handle, arg, prog, tmp, deviceVars>>

(* Variant: open does not check the interface data (no test of line 253).  *)
ResolvesUnchecked(minor) == registered[minor]

(* Lines 250-256: usb_find_interface finds the interface that holds the     *)
(* minor, and its interface data is set.                                    *)
Resolves(minor) == registered[minor] /\ intfdata[minor] # NULL

(* Lines 244-260.  -ENODEV is the specification's NoSuchDevice.  The USB    *)
(* core runs open under the lock that usb_deregister_dev takes, so open     *)
(* does not overlap the deregistration of its minor.                        *)
Open(c, minor) ==
    /\ pc[c] = "idle"
    /\ handle[c] = NULL
    /\ op' = [op EXCEPT ![c] = "open"]
    /\ IF Resolves(minor)
       THEN /\ handle' = [handle EXCEPT ![c] = intfdata[minor]]
            /\ Finish(c, Ok(0))
       ELSE /\ handle' = handle
            /\ Finish(c, Err("ENODEV"))
    /\ UNCHANGED <<lifecycleVars, urb, io_mutex, late, tmp, xfers, deviceVars>>

(* Variant: release tears the session down as if it owned it.              *)
ReleasedFreed(d) == FreeDev(d)

(* Lines 263-266: xserve_fp_release returns 0 and leaves the structure as   *)
(* it is.                                                                   *)
Released(d) == d

(* Lines 263-266; the VFS then drops the struct file.                       *)
Release(c) ==
    /\ pc[c] = "idle"
    /\ handle[c] # NULL
    /\ op' = [op EXCEPT ![c] = "release"]
    /\ handle' = [handle EXCEPT ![c] = NULL]
    /\ dev' = [dev EXCEPT ![handle[c]] = Released(@)]
    /\ Finish(c, Ok(0))
    /\ UNCHANGED <<intfdata, registered, probeRet, probed, udevRef, lost, dpc,
                   urb, io_mutex, late, tmp, xfers, deviceVars>>

(* ================== read, write and ioctl ============================= *)
(* A handle points to dev[handle]; the pointer dangles once that structure  *)
(* has been freed.  Every access through a dangling pointer is undefined:   *)
(* the call may go on with whatever the memory holds, or oops.              *)
Dangling(c) == handle[c] # NULL /\ dev[handle[c]].mem # "live"

Min(a, b) == IF a < b THEN a ELSE b

(* The bytes of a freed buffer or structure.                                *)
Garbage == NumCallers + 1

(* The 16-bit wValue field of a control request.                            *)
Wrap16 == 65536
LedValues == {127, Wrap16 + 127}

(* The payload of caller c is count bytes of its own fill pattern.          *)
Pattern(c) == c

(* disconnect has started on the session the handle of c points to.         *)
Detaching(c) == dpc[handle[c]] # "none"

(* A call enters the driver: it is late when disconnect has already begun.  *)
Enter(c, o) ==
    /\ pc[c] = "idle"
    /\ handle[c] # NULL
    /\ op' = [op EXCEPT ![c] = o]
    /\ late' = [late EXCEPT ![c] = Detaching(c)]

(* Entry of xserve_fp_read (lines 272-278) with a count drawn from counts.  *)
ReadBegin(c, counts) ==
    /\ Enter(c, "read")
    /\ \E count \in counts : arg' = [arg EXCEPT ![c] = count]
    /\ pc' = [pc EXCEPT ![c] = "lock"]
    /\ UNCHANGED <<lifecycleVars, urb, io_mutex, handle, prog, tmp, xfers, res,
                   deviceVars>>

(* Lines 302-317: kmalloc of the transient buffer and copy_from_user.       *)
WriteBegin(c, counts) ==
    /\ Enter(c, "write")
    /\ \E count \in counts, outcome \in {"ok", "ENOMEM", "EFAULT"} :
         IF outcome = "ok"
         THEN /\ tmp' = [tmp EXCEPT ![c] = Pattern(c)]
              /\ arg' = [arg EXCEPT ![c] = count]
              /\ pc' = [pc EXCEPT ![c] = "lock"]
              /\ UNCHANGED <<res, prog>>
         ELSE /\ tmp' = tmp
              /\ Finish(c, Err(outcome))
    /\ UNCHANGED <<lifecycleVars, urb, io_mutex, handle, xfers, deviceVars>>

(* Entry of xserve_fp_ioctl (lines 340-346) with one of the two commands or *)
(* an unknown one.                                                          *)
IoctlBegin(c, values) ==
    /\ \/ /\ Enter(c, "get")
          /\ arg' = arg
       \/ /\ Enter(c, "set")
          /\ \E v \in values : arg' = [arg EXCEPT ![c] = v]
       \/ /\ Enter(c, "other")
          /\ arg' = arg
    /\ pc' = [pc EXCEPT ![c] = "lock"]
    /\ UNCHANGED <<lifecycleVars, urb, io_mutex, handle, prog, tmp, xfers, res,
                   deviceVars>>

(* A store into the session of handle i.  What is written through a        *)
(* dangling pointer lands in freed memory and is not part of the state.     *)
Store(f, i, v) == IF dev[i].mem = "live" THEN [f EXCEPT ![i] = v] ELSE f

(* Variant: the interrupted write returns without kfree(buf).               *)
TransientKept(t) == t

(* Line 320: the interrupted write frees its transient buffer; read and     *)
(* ioctl have none.                                                         *)
TransientFreed(t) == NULL

(* Variant: a path returns without mutex_unlock.                            *)
UnlockSkipped(i) == io_mutex

(* Lines 288, 329, 394: mutex_unlock(&dev->io_mutex).                       *)
Unlock(i) == Store(io_mutex, i, NULL)

(* Variant: the call goes on without looking at the mutex.                  *)
MutexNotTaken(i) == TRUE

(* mutex_lock_interruptible can take the mutex when nobody holds it.        *)
MutexFree(i) == io_mutex[i] = NULL

(* Lines 279-280, 319-322, 347-348: mutex_lock_interruptible(&dev->io_mutex). *)
(* The caller takes a free mutex; while it waits for a held one a signal    *)
(* may interrupt it (-ERESTARTSYS, the specification's Interrupted; write   *)
(* frees its buffer first).  On a freed structure the mutex word is         *)
(* indeterminate: the call may take it whoever holds it, or be interrupted. *)
Lock(c) ==
    /\ pc[c] = "lock"
    /\ LET i == handle[c]
           take == /\ io_mutex' = Store(io_mutex, i, c)
                   /\ pc' = [pc EXCEPT ![c] = "locked"]
                   /\ UNCHANGED <<res, tmp, arg, prog>>
           interrupted == /\ tmp' = [tmp EXCEPT ![c] = TransientFreed(@)]
                          /\ Finish(c, Err("ERESTARTSYS"))
                          /\ io_mutex' = io_mutex
       IN  IF Dangling(c) THEN take \/ interrupted
           ELSE IF MutexFree(i) THEN take
           ELSE interrupted
    /\ UNCHANGED <<lifecycleVars, urb, op, late, handle, xfers, deviceVars>>

(* Variant: count is passed to usb_bulk_msg without the min of line 285.    *)
ReadLengthUnclamped(c) == arg[c]

(* Line 285: the length asked of the bulk-in transfer.  The size field of a *)
(* freed structure is indeterminate, so only count bounds the length.       *)
ReadLength(c) ==
    IF Dangling(c) THEN arg[c] ELSE Min(dev[handle[c]].bulk_in_size, arg[c])

(* Lines 282-291: usb_bulk_msg on the bulk-in pipe, then mutex_unlock.  The *)
(* device sends n bytes, at most the length asked for; the call succeeds or *)
(* ends with an error status (timeout, bus error: TransferFailed).          *)
ReadXfer(c) ==
    /\ pc[c] = "locked"
    /\ op[c] = "read"
    /\ LET i == handle[c]
       IN  /\ \E n \in 0..ReadLength(c), ok \in BOOLEAN :
                /\ bulkData' = Store(bulkData, i, IF n > 0 THEN c ELSE bulkData[i])
                /\ IF ok THEN /\ pc' = [pc EXCEPT ![c] = "copy"]
                              /\ prog' = [prog EXCEPT ![c] = n]
                              /\ UNCHANGED <<res, arg>>
                   ELSE Finish(c, Err("ETIMEDOUT"))
           /\ io_mutex' = Unlock(i)
    /\ xfers' = [xfers EXCEPT ![c] = 1]
    /\ UNCHANGED <<lifecycleVars, urb, op, late, handle, tmp, devRx, devValue>>

(* Line 293: what copy_to_user reads out of the bulk-in buffer, which the   *)
(* mutex no longer protects at that point.                                  *)
BufferContent(c) ==
    IF prog[c] = 0 THEN NULL
    ELSE IF Dangling(c) THEN Garbage
    ELSE bulkData[handle[c]]

(* Lines 293-295: copy_to_user of bytes_read bytes out of the bulk-in       *)
(* buffer, after the mutex was released.  -EFAULT is BoundaryFault.         *)
ReadCopy(c) ==
    /\ pc[c] = "copy"
    /\ \/ Finish(c, Err("EFAULT"))
       \/ Finish(c, [ret |-> "OK", val |-> prog[c], data |-> BufferContent(c)])
    /\ UNCHANGED <<lifecycleVars, urb, io_mutex, op, late, handle, tmp, xfers,
                   deviceVars>>

(* The device records a received byte (at most MaxRx of them).              *)
Receive(rx, b) == IF Len(rx) < MaxRx THEN Append(rx, b) ELSE rx

(* Another write has a partly sent payload on the bulk-out pipe of i.       *)
OtherWriteInFlight(c, i) ==
    \E c2 \in Callers \ {c} :
        /\ pc[c2] = "locked" /\ op[c2] = "write"
        /\ handle[c2] = i /\ prog[c2] > 0

(* Lines 323-328: usb_bulk_msg on the bulk-out pipe moves the transient     *)
(* buffer to the device one byte after the other.                           *)
WriteByte(c) ==
    /\ pc[c] = "locked"
    /\ op[c] = "write"
    /\ prog[c] < arg[c]
    /\ devRx' = Store(devRx, handle[c], Receive(devRx[handle[c]], tmp[c]))
    /\ prog' = [prog EXCEPT ![c] = @ + 1]
    /\ xfers' = [xfers EXCEPT ![c] = 1]
    /\ UNCHANGED <<lifecycleVars, urb, io_mutex, pc, op, late, handle, arg, tmp,
                   res, bulkData, devValue>>

(* Lines 323-333: usb_bulk_msg returns, with every byte sent or with an     *)
(* error status; mutex_unlock, kfree of the transient buffer, return.  The  *)
(* device's record starts afresh when the pipe is quiet again.              *)
WriteDone(c) ==
    /\ pc[c] = "locked"
    /\ op[c] = "write"
    /\ \/ /\ prog[c] = arg[c]
          /\ Finish(c, Ok(prog[c]))
       \/ Finish(c, Err("ETIMEDOUT"))
    /\ io_mutex' = Unlock(handle[c])
    /\ tmp' = [tmp EXCEPT ![c] = NULL]
    /\ xfers' = [xfers EXCEPT ![c] = 1]
    /\ devRx' = Store(devRx, handle[c],
                      IF OtherWriteInFlight(c, handle[c]) THEN devRx[handle[c]]
                      ELSE <<>>)
    /\ UNCHANGED <<lifecycleVars, urb, op, late, handle, bulkData, devValue>>

(* Variant: the control request carries no value (wValue 0).                *)
WValueZero(v) == 0

(* Line 383: led_val is passed in the 16-bit wValue field of the request.   *)
WValue(v) == v % Wrap16

(* Variant: an unknown command is ignored and reported as done.             *)
DefaultIgnored == "OK"

(* Line 389: the default branch of the switch.                              *)
DefaultRet == "ENOTTY"

(* Lines 350-395: the switch of xserve_fp_ioctl and the unlock at out:.     *)
(* A failed control transfer is CommandFailed, -ENOTTY UnsupportedCommand.  *)
IoctlCmd(c) ==
    /\ pc[c] = "locked"
    /\ op[c] \in {"get", "set", "other"}
    /\ LET i == handle[c]
       IN  /\ CASE op[c] = "get" ->
                     /\ xfers' = [xfers EXCEPT ![c] = 1]
                     /\ \/ Finish(c, Err("ETIMEDOUT"))
                        \/ Finish(c, Err("EFAULT"))
                        \/ Finish(c, Ok(devValue[i]))
                     /\ devValue' = devValue
                [] op[c] = "set" ->
                     \/ /\ Finish(c, Err("EFAULT"))
                        /\ UNCHANGED <<xfers, devValue>>
                     \/ /\ xfers' = [xfers EXCEPT ![c] = 1]
                        /\ \/ /\ Finish(c, Err("ETIMEDOUT"))
                              /\ devValue' = devValue
                           \/ /\ Finish(c, Ok(0))
                              /\ devValue' = Store(devValue, i, WValue(arg[c]))
                [] op[c] = "other" ->
                     /\ Finish(c, Err(DefaultRet))
                     /\ UNCHANGED <<xfers, devValue>>
           /\ io_mutex' = Unlock(i)
    /\ UNCHANGED <<lifecycleVars, urb, op, late, handle, tmp, devRx, bulkData>>

(* A call that touches the freed structure or its freed buffer may oops:    *)
(* the task is killed where it stands, with whatever it holds.              *)
UseAfterFree(c) ==
    /\ pc[c] \in {"lock", "locked", "copy"}
    /\ Dangling(c)
    /\ Finish(c, Err("OOPS"))
    /\ UNCHANGED <<lifecycleVars, urb, io_mutex, op, late, handle, tmp, xfers,
                   deviceVars>>

(* ========================= specifications ============================= *)
(* Well-formed descriptors without an interrupt endpoint: a bulk pair.      *)
BulkPair(p) == <<[kind |-> "bulk_in", maxp |-> p], [kind |-> "bulk_out", maxp |-> 1]>>
PlainDescriptors == {BulkPair(p) : p \in 1..MaxPacket}
NoFault == {[at |-> "none", idx |-> 0]}

(* Attach, detach, open and the listener.  Interface 1 is probed with every *)
(* descriptor and every fault, the others with a plain bulk pair.           *)
ProbeAny(i) ==
    IF i = 1 THEN ProbeWith(i, Descriptors, ProbeFaults)
    ELSE ProbeWith(i, {BulkPair(1)}, NoFault)

NextLifecycle ==
    \/ \E i \in Intf : ProbeAny(i)
    \/ \E i \in Intf : DisconnectBegin(i)
    \/ \E i \in Intf : DisconnectFinish(i)
    \/ \E i \in Intf : IrqComplete(i)
    \/ \E i \in Intf : XserveFpIrq(i)
    \/ \E c \in Callers, m \in Intf : Open(c, m)
    \/ \E c \in Callers : Release(c)
    \/ \E c \in Callers : Return(c)

SpecLifecycle == Init /\ [][NextLifecycle]_vars

(* One well-formed device without an interrupt endpoint, every call with    *)
(* every argument.                                                          *)
NextIO ==
    \/ ProbeWith(1, PlainDescriptors, NoFault)
    \/ \E i \in Intf : DisconnectBegin(i)
    \/ \E i \in Intf : DisconnectFinish(i)
    \/ \E c \in Callers, m \in Intf : Open(c, m)
    \/ \E c \in Callers : Release(c)
    \/ \E c \in Callers : Return(c)
    \/ \E c \in Callers : ReadBegin(c, 0..MaxLen)
    \/ \E c \in Callers : WriteBegin(c, 0..MaxLen)
    \/ \E c \in Callers : IoctlBegin(c, LedValues)
    \/ \E c \in Callers : Lock(c)
    \/ \E c \in Callers : ReadXfer(c)
    \/ \E c \in Callers : ReadCopy(c)
    \/ \E c \in Callers : WriteByte(c)
    \/ \E c \in Callers : WriteDone(c)
    \/ \E c \in Callers : IoctlCmd(c)
    \/ \E c \in Callers : UseAfterFree(c)

SpecIO == Init /\ [][NextIO]_vars

(* Several devices at once, every call with one argument value: an empty   *)
(* read, a one-byte write and an actuator value of zero.                    *)
NextSessions ==
    \/ \E i \in Intf : ProbeWith(i, {BulkPair(1)}, NoFault)
    \/ \E i \in Intf : DisconnectBegin(i)
    \/ \E i \in Intf : DisconnectFinish(i)
    \/ \E c \in Callers, m \in Intf : Open(c, m)
    \/ \E c \in Callers : Release(c)
    \/ \E c \in Callers : Return(c)
    \/ \E c \in Callers : ReadBegin(c, {0})
    \/ \E c \in Callers : WriteBegin(c, {1})
    \/ \E c \in Callers : IoctlBegin(c, {0})
    \/ \E c \in Callers : Lock(c)
    \/ \E c \in Callers : ReadXfer(c)
    \/ \E c \in Callers : ReadCopy(c)
    \/ \E c \in Callers : WriteByte(c)
    \/ \E c \in Callers : WriteDone(c)
    \/ \E c \in Callers : IoctlCmd(c)
    \/ \E c \in Callers : UseAfterFree(c)

SpecSessions == Init /\ [][NextSessions]_vars

(* One device with an interrupt endpoint: the listener runs next to the     *)
(* calls, each call with one argument value.                                *)
IrqDescriptor == <<[kind |-> "bulk_in", maxp |-> 1],
                   [kind |-> "bulk_out", maxp |-> 1],
                   [kind |-> "int_in", maxp |-> 1]>>

NextMonitor ==
    \/ ProbeWith(1, {IrqDescriptor}, NoFault)
    \/ \E i \in Intf : DisconnectBegin(i)
    \/ \E i \in Intf : DisconnectFinish(i)
    \/ \E i \in Intf : IrqComplete(i)
    \/ \E i \in Intf : XserveFpIrq(i)
    \/ \E c \in Callers, m \in Intf : Open(c, m)
    \/ \E c \in Callers : Release(c)
    \/ \E c \in Callers : Return(c)
    \/ \E c \in Callers : ReadBegin(c, {1})
    \/ \E c \in Callers : WriteBegin(c, {1})
    \/ \E c \in Callers : IoctlBegin(c, {0})
    \/ \E c \in Callers : Lock(c)
    \/ \E c \in Callers : ReadXfer(c)
    \/ \E c \in Callers : ReadCopy(c)
    \/ \E c \in Callers : WriteByte(c)
    \/ \E c \in Callers : WriteDone(c)
    \/ \E c \in Callers : IoctlCmd(c)
    \/ \E c \in Callers : UseAfterFree(c)

SpecMonitor == Init /\ [][NextMonitor]_vars

(* Scheduling: a bus round trip ends by its deadline (1 s for a control     *)
(* request, 5 s for a bulk transfer), a call that can go on does, and the   *)
(* kernel mutex hands the lock to a waiter that can take it again and again.*)
(* None of this is promised to a call on a freed structure.                 *)
FairCalls ==
    \A c \in Callers :
        /\ SF_vars(Lock(c) /\ pc'[c] = "locked" /\ ~Dangling(c))
        /\ WF_vars(ReadXfer(c) /\ ~Dangling(c))
        /\ WF_vars(ReadCopy(c) /\ ~Dangling(c))
        /\ WF_vars(WriteDone(c) /\ ~Dangling(c))
        /\ WF_vars(IoctlCmd(c) /\ ~Dangling(c))

SpecMonitorFair == SpecMonitor /\ FairCalls

(* ============================== claims ================================ *)
Live(i) == dev[i].mem = "live"
InCall(c) == pc[c] \in {"locked", "copy"}
DataOps == {"read", "write", "get", "set"}

(* C1 (as claimed): a Read, Write, GetStatus or SetActuator issued after    *)
(* disconnect has begun on its session neither takes the lock nor issues a  *)
(* bus transfer, and fails with -ENODEV (SessionDetached), or for a write   *)
(* with the allocation or copy error that comes before the lock.            *)
C1_DetachedCallsFail ==
    \A c \in Callers :
        (late[c] /\ op[c] \in DataOps) =>
            /\ ~InCall(c)
            /\ xfers[c] = 0
            /\ pc[c] = "ret" => res[c].ret \in {"ENODEV", "ENOMEM", "EFAULT"}

(* C2 (as claimed): no call issued while the session was attached is        *)
(* between taking the lock and returning when the session has been freed.   *)
C2_FreedOnlyAfterCallsReturned ==
    \A c \in Callers :
        (InCall(c) /\ ~late[c]) => Live(handle[c])

(* C3: on a session that exists, at most one call is between mutex_lock and *)
(* mutex_unlock; and a caller waiting for the lock of a session on which no *)
(* call holds it can take it, whatever is held on the other sessions.       *)
Holders(i) == {c \in Callers : handle[c] = i /\ pc[c] = "locked"}
C3_SerializedPerSession ==
    /\ \A i \in Intf : Live(i) => Cardinality(Holders(i)) <= 1
    /\ \A c \in Callers :
          (pc[c] = "lock" /\ Live(handle[c]) /\ Holders(handle[c]) = {}) =>
              ENABLED (Lock(c) /\ pc'[c] = "locked")

(* C3 witness: two calls hold the locks of two sessions at the same time,   *)
(* one of them a read and the other a write.                                *)
C3_Witness ==
    \E c1, c2 \in Callers :
        /\ pc[c1] = "locked" /\ op[c1] = "read"
        /\ pc[c2] = "locked" /\ op[c2] = "write"
        /\ handle[c1] # handle[c2]
        /\ Live(handle[c1]) /\ Live(handle[c2])

(* C4: what the device has received on a session is the payload of the one  *)
(* write that holds the lock, as far as it has been sent: prog bytes of the *)
(* writer's own pattern and no byte of another write among them.            *)
Block(c, n) == [k \in 1..n |-> Pattern(c)]
C4_WritesNotInterleaved ==
    \A i \in Intf :
        Live(i) =>
            /\ \A c \in Callers :
                  (handle[c] = i /\ pc[c] = "locked" /\ op[c] = "write") =>
                      devRx[i] = Block(c, prog[c])
            /\ (\A c \in Callers :
                  ~(handle[c] = i /\ pc[c] = "locked" /\ op[c] = "write")) =>
                      devRx[i] = <<>>

(* C4 witness: a write has sent its whole two-byte payload while a second   *)
(* write on the same session waits for the lock.                            *)
C4_Witness ==
    \E c1, c2 \in Callers :
        /\ c1 # c2
        /\ op[c1] = "write" /\ pc[c1] = "locked" /\ prog[c1] = MaxLen
        /\ op[c2] = "write" /\ pc[c2] = "lock" /\ tmp[c2] = Pattern(c2)
        /\ handle[c1] = handle[c2] /\ Live(handle[c1])
        /\ devRx[handle[c1]] = Block(c1, MaxLen)

(* What C5 says of the session and the minor once a descriptor lacking a    *)
(* bulk endpoint has been probed: nothing constructed, nothing registered,  *)
(* and open of that minor fails with -ENODEV (NoSuchDevice) and binds       *)
(* nothing.                                                                 *)
C5_NothingLeft(i) ==
    /\ ~Live(i) /\ ~registered[i] /\ intfdata[i] = NULL
    /\ \A c \in Callers :
          Open(c, i) => res'[c].ret = "ENODEV" /\ handle'[c] = NULL

(* C5 (as claimed): probe of a descriptor lacking a bulk endpoint returns   *)
(* -ENODEV (EndpointMissing), whatever else happens during the probe.       *)
C5_AlwaysEndpointMissing ==
    [][\A i \in Intf :
          probed[i].lacks => probeRet[i] = "ENODEV" /\ C5_NothingLeft(i)]_vars

(* C5 (amended): probe of a descriptor lacking a bulk endpoint fails, with  *)
(* -ENOMEM (AllocationFailure) when an allocation fails before the endpoint *)
(* check and with -ENODEV (EndpointMissing) otherwise; no session is left,  *)
(* nothing is registered and open of that minor fails with -ENODEV.         *)
C5_EndpointMissing ==
    [][\A i \in Intf :
          probed[i].lacks =>
              /\ probeRet[i] = IF probed[i].nomem THEN "ENOMEM" ELSE "ENODEV"
              /\ C5_NothingLeft(i)]_vars

(* C5 witness: probe of interface 1 ended with -ENODEV, the other minor is  *)
(* registered, and an open found no device.                                 *)
C5_Witness ==
    /\ probed[1].lacks /\ probeRet[1] = "ENODEV"
    /\ \E i \in Intf : registered[i]
    /\ \E c \in Callers :
          pc[c] = "ret" /\ op[c] = "open" /\ res[c].ret = "ENODEV"

(* C6 (as claimed): after a failed probe no buffer is allocated, no URB is  *)
(* outstanding, the usb_device reference is dropped and the interface is    *)
(* neither registered nor resolvable.                                       *)
C6_FailedProbeUnwinds ==
    \A i \in Intf :
        probeRet[i] \notin {"unset", "OK"} =>
            /\ lost[i] = 0
            /\ dev[i].bulk_in_buffer # "live" /\ dev[i].irq_buffer # "live"
            /\ ~Live(i)
            /\ urb[i].mem # "live" /\ urb[i].st = "idle"
            /\ udevRef[i] = 0
            /\ ~registered[i] /\ intfdata[i] = NULL

(* C7: when the handler returns it has called usb_submit_urb once if the    *)
(* completion was successful and not at all if it carried an error; and a   *)
(* listener that is not outstanding (after an error completion or a failed  *)
(* resubmission) is never outstanding again.                                *)
C7_ResubmitOnSuccessOnly ==
    [][\A i \in Intf :
          /\ (urb[i].st = "running" /\ urb'[i].st # "running") =>
                IF urb[i].status = "ok"
                THEN urb'[i].subs = 1
                ELSE urb'[i].subs = 0 /\ urb'[i].st = "idle"
          /\ (urb[i].st = "running" /\ urb[i].status # "ok") =>
                urb'[i].st # "submitted"
          /\ (urb[i].mem # "none" /\ urb[i].st = "idle") =>
                urb'[i].st = "idle"]_vars

(* C7 witness: the listener of an attached session has stopped after an     *)
(* error completion.                                                        *)
C7_Witness ==
    \E i \in Intf :
        /\ dpc[i] = "none" /\ dev[i].irq_urb = "set"
        /\ urb[i].st = "idle" /\ urb[i].status = "EPROTO" /\ urb[i].subs = 0

(* C8: while the URB is outstanding or its handler runs, the interrupt      *)
(* buffer, the URB and the structure are allocated; and a URB that          *)
(* usb_kill_urb rejects is not outstanding.                                 *)
C8_BufferOutlivesHandler ==
    \A i \in Intf :
        /\ urb[i].st \in {"submitted", "running"} =>
              /\ dev[i].irq_buffer = "live"
              /\ urb[i].mem = "live"
              /\ Live(i)
        /\ urb[i].reject => urb[i].st # "submitted"

(* C8 witness: disconnect waits in usb_kill_urb while the handler runs on a *)
(* successful completion.                                                   *)
C8_Witness ==
    \E i \in Intf :
        /\ dpc[i] = "kill"
        /\ urb[i].st = "running" /\ urb[i].status = "ok"
        /\ dev[i].irq_buffer = "live"

(* The listener of interface i is armed: probe submitted it and the session *)
(* still exists.                                                            *)
Armed(i) == Live(i) /\ dev[i].irq_urb = "set"

(* C9 (as claimed): an armed listener is outstanding (on the bus or in its  *)
(* handler) or being canceled, and a freed one is not outstanding.          *)
C9_OutstandingOrCanceled ==
    \A i \in Intf :
        /\ Armed(i) => urb[i].st \in {"submitted", "running"} \/ urb[i].reject
        /\ urb[i].mem = "freed" => urb[i].st = "idle"

(* C9 (amended): an armed listener is allocated and is outstanding, in its  *)
(* handler, being canceled, or stopped after an error completion or a       *)
(* failed resubmission; a freed listener is neither outstanding nor in its  *)
(* handler.                                                                 *)
C9_NeverFreedWhileOutstanding ==
    \A i \in Intf :
        /\ Armed(i) =>
              /\ urb[i].mem = "live"
              /\ urb[i].st = "idle" =>
                    \/ urb[i].reject
                    \/ urb[i].status # "ok"
                    \/ urb[i].subs = 1
        /\ urb[i].mem = "freed" => urb[i].st = "idle"

(* C9 witness: disconnect has canceled an outstanding listener and freed it. *)
C9_Witness ==
    \E i \in Intf :
        /\ dpc[i] = "done"
        /\ urb[i].mem = "freed" /\ urb[i].status = "ENOENT" /\ urb[i].reject

(* C10: a bulk-in transfer on an existing session receives at most          *)
(* min(count, bulk_in_size) bytes, and a successful read returns the number *)
(* of bytes received.                                                       *)
C10_ReadBounded ==
    [][\A c \in Callers :
          /\ (pc[c] = "locked" /\ op[c] = "read" /\ pc'[c] = "copy"
                /\ Live(handle[c])) =>
                /\ prog'[c] <= arg[c]
                /\ prog'[c] <= dev[handle[c]].bulk_in_size
          /\ (pc[c] = "copy" /\ pc'[c] = "ret" /\ res'[c].ret = "OK") =>
                res'[c].val = prog[c]]_vars

(* C10 witness: a read of two bytes on a session whose bulk-in endpoint has *)
(* a maximum packet size of one has received one byte.                      *)
C10_Witness ==
    \E c \in Callers :
        /\ pc[c] = "copy" /\ Live(handle[c])
        /\ arg[c] = 2 /\ dev[handle[c]].bulk_in_size = 1 /\ prog[c] = 1

(* C11: a SetActuator that succeeds leaves in the device the value it was   *)
(* given, as the 16-bit wValue field carries it (unchanged below 65536);    *)
(* the device value of a session changes in no other way while the session *)
(* exists; and a GetStatus that succeeds returns the device value.  Hence   *)
(* SetActuator(v) followed by GetStatus, with no command on the session in  *)
(* between, returns v.                                                      *)
C11_SetThenGet ==
    [][/\ \A c \in Callers :
            (pc[c] = "locked" /\ Live(handle[c]) /\ pc'[c] = "ret"
                /\ res'[c].ret = "OK") =>
                /\ op[c] = "set" =>
                      /\ devValue'[handle[c]] = arg[c] % Wrap16
                      /\ arg[c] < Wrap16 => devValue'[handle[c]] = arg[c]
                /\ op[c] = "get" =>
                      /\ res'[c].val = devValue[handle[c]]
                      /\ devValue'[handle[c]] = devValue[handle[c]]
       /\ \A i \in Intf :
            (Live(i) /\ dev'[i].mem = "live" /\ devValue'[i] # devValue[i]) =>
                \E c \in Callers :
                    /\ handle[c] = i /\ pc[c] = "locked" /\ op[c] = "set"
                    /\ pc'[c] = "ret" /\ res'[c].ret = "OK"]_vars

(* C11 witness: GetStatus has returned 127 on a session that exists.        *)
C11_Witness ==
    \E c \in Callers :
        /\ pc[c] = "ret" /\ op[c] = "get"
        /\ res[c].ret = "OK" /\ res[c].val = 127
        /\ Live(handle[c]) /\ devValue[handle[c]] = 127

(* C12 (as claimed): a device-control call with an unknown command on a     *)
(* session that exists always returns -ENOTTY (UnsupportedCommand), having  *)
(* issued no control request and not holding the lock.                      *)
C12_AlwaysUnsupported ==
    [][\A c \in Callers :
          (op[c] = "other" /\ pc[c] \in {"lock", "locked"} /\ Live(handle[c])
              /\ pc'[c] = "ret") =>
              /\ res'[c].ret = "ENOTTY"
              /\ xfers'[c] = 0
              /\ io_mutex'[handle[c]] # c]_vars

(* C12 (amended): a device-control call with an unknown command on a        *)
(* session that exists returns -ERESTARTSYS (Interrupted) when its wait for *)
(* the lock is interrupted, and -ENOTTY (UnsupportedCommand) once it has    *)
(* the lock; either way it has issued no control request and does not hold  *)
(* the lock when it returns.                                                *)
C12_UnsupportedCommand ==
    [][\A c \in Callers :
          (op[c] = "other" /\ pc[c] \in {"lock", "locked"} /\ Live(handle[c])
              /\ pc'[c] = "ret") =>
              /\ res'[c].ret = IF pc[c] = "lock" THEN "ERESTARTSYS" ELSE "ENOTTY"
              /\ xfers'[c] = 0
              /\ io_mutex'[handle[c]] # c]_vars

(* C12 witness: an unknown command has returned -ENOTTY without a transfer  *)
(* and another call on the same session holds the lock after it.            *)
C12_Witness ==
    \E c1, c2 \in Callers :
        /\ pc[c1] = "ret" /\ op[c1] = "other" /\ res[c1].ret = "ENOTTY"
        /\ xfers[c1] = 0
        /\ handle[c1] = handle[c2] /\ Live(handle[c1])
        /\ pc[c2] = "locked" /\ io_mutex[handle[c1]] = c2

(* A session is registered under minor m: probe succeeded and disconnect    *)
(* has not begun.                                                           *)
Registered(m) == probeRet[m] = "OK" /\ dpc[m] = "none" /\ Live(m)

(* C13: open of minor m succeeds and binds the handle to the session of m   *)
(* exactly when a session is registered under m; otherwise (never probed,   *)
(* probe failed, disconnected) it returns -ENODEV (NoSuchDevice) and binds  *)
(* nothing.                                                                 *)
C13_OpenResolves ==
    [][\A c \in Callers, m \in Intf :
          Open(c, m) =>
              IF Registered(m)
              THEN res'[c].ret = "OK" /\ handle'[c] = m
              ELSE res'[c].ret = "ENODEV" /\ handle'[c] = NULL]_vars

(* C13 witness: one caller holds a handle on a session since disconnected,  *)
(* and an open has failed while the minor of a failed probe is still taken. *)
C13_Witness ==
    \E c1, c2 \in Callers :
        /\ handle[c1] # NULL /\ dpc[handle[c1]] = "done"
        /\ pc[c2] = "ret" /\ op[c2] = "open" /\ res[c2].ret = "ENODEV"
        /\ handle[c2] = NULL
        /\ probeRet[1] = "ENOMEM" /\ registered[1]

(* The session of interface i has no armed listener: it has no URB, or the  *)
(* URB was freed when its first submission failed.                         *)
NeverArmed(i) == urb[i].mem # "live"

(* C14: disconnect of a session without an armed listener runs to its end;  *)
(* it leaves the URB alone (no cancel, no second free), frees the bulk-in   *)
(* buffer, the interrupt buffer if there is one and the structure, each     *)
(* once, and drops the one device reference; nothing is ever freed twice.   *)
C14_DetachWithoutListener ==
    [][\A i \in Intf :
          /\ (NeverArmed(i) /\ dpc[i] = "kill") => ENABLED DisconnectFinish(i)
          /\ (NeverArmed(i) /\ dpc[i] # dpc'[i]) => urb'[i] = urb[i]
          /\ (NeverArmed(i) /\ dpc[i] = "kill" /\ dpc'[i] = "done") =>
                /\ dev[i].mem = "live" /\ dev'[i].mem = "freed"
                /\ dev[i].bulk_in_buffer = "live"
                /\ dev'[i].bulk_in_buffer = "freed"
                /\ dev[i].irq_buffer \in {"null", "live"}
                /\ dev'[i].irq_buffer = Kfree(dev[i].irq_buffer)
                /\ udevRef[i] = 1 /\ udevRef'[i] = 0
          /\ urb'[i].mem # "double"
          /\ dev'[i].mem # "double"
          /\ dev'[i].bulk_in_buffer # "double"
          /\ dev'[i].irq_buffer # "double"]_vars

(* C14 witness: disconnect has finished on a session whose first URB        *)
(* submission had failed during probe.                                      *)
C14_Witness ==
    \E i \in Intf :
        /\ dpc[i] = "done" /\ probeRet[i] = "OK"
        /\ urb[i].mem = "freed" /\ ~urb[i].reject
        /\ dev[i].irq_buffer = "freed" /\ udevRef[i] = 0

(* C15: a release leaves the session as it was (structure, endpoints,       *)
(* buffers, lock, URB, registration, device) and changes nothing for any    *)
(* other caller, whose handle stays bound and whose call goes on.           *)
C15_ReleaseLeavesSession ==
    [][\A c \in Callers :
          Release(c) =>
              /\ UNCHANGED <<dev, urb, io_mutex, intfdata, registered, dpc,
                             devRx, bulkData, devValue>>
              /\ \A c2 \in Callers \ {c} :
                    /\ handle'[c2] = handle[c2]
                    /\ pc'[c2] = pc[c2]
                    /\ (ENABLED Lock(c2)) => (ENABLED Lock(c2))']_vars

(* C15 witness: one caller has released its handle while the other is in a *)
(* call on the same session, which exists, and holds its lock.              *)
C15_Witness ==
    \E c1, c2 \in Callers :
        /\ pc[c1] = "ret" /\ op[c1] = "release" /\ handle[c1] = NULL
        /\ pc[c2] = "locked" /\ Live(handle[c2])
        /\ io_mutex[handle[c2]] = c2

(* C16 (as claimed): a read touches the bulk-in buffer only while it holds  *)
(* the lock, its copy to the caller included; and the bytes a read returns  *)
(* on a session that exists are those its own transfer received.            *)
C16_BufferUnderLock ==
    \A c \in Callers :
        (handle[c] # NULL /\ Live(handle[c])) =>
            /\ pc[c] = "copy" => io_mutex[handle[c]] = c
            /\ (pc[c] = "ret" /\ op[c] = "read" /\ res[c].ret = "OK"
                  /\ res[c].val > 0) => res[c].data = c

(* C17 (as claimed): when probe returns 0 the URB is outstanding exactly    *)
(* when the descriptor has an interrupt-in endpoint.                        *)
C17_ArmedIffEndpoint ==
    [][\A i \in Intf :
          (probeRet[i] = "unset" /\ probeRet'[i] = "OK") =>
              (urb'[i].st = "submitted" <=> dev'[i].irq_endpointAddr # 0)]_vars

(* C17 (amended): when probe returns 0 the session is registered and can   *)
(* be opened; without an interrupt-in endpoint there is no URB; with one,   *)
(* the URB is allocated and outstanding, or its first submission failed     *)
(* and it has been freed and its pointer cleared.                           *)
C17_ArmedUnlessSubmitFails ==
    [][\A i \in Intf :
          (probeRet[i] = "unset" /\ probeRet'[i] = "OK") =>
              /\ dev'[i].mem = "live" /\ registered'[i] /\ intfdata'[i] = i
              /\ IF dev'[i].irq_endpointAddr = 0
                 THEN /\ urb'[i].mem = "none" /\ urb'[i].st = "idle"
                      /\ dev'[i].irq_urb = "null"
                 ELSE \/ /\ urb'[i].mem = "live" /\ urb'[i].st = "submitted"
                         /\ dev'[i].irq_urb = "set"
                         /\ dev'[i].irq_buffer = "live"
                      \/ /\ urb'[i].mem = "freed" /\ urb'[i].st = "idle"
                         /\ dev'[i].irq_urb = "null"]_vars

(* C17 witness: a session attached with an interrupt-in endpoint whose      *)
(* first submission failed, and a caller has opened it.                     *)
C17_Witness ==
    \E i \in Intf, c \in Callers :
        /\ probeRet[i] = "OK" /\ dpc[i] = "none"
        /\ dev[i].irq_endpointAddr # 0 /\ urb[i].mem = "freed"
        /\ handle[c] = i

(* C18: a read, write, GetStatus or SetActuator whose wait for the lock of  *)
(* a session that exists is interrupted returns -ERESTARTSYS (Interrupted)  *)
(* with no transfer issued, without the lock, with the session, the URB and *)
(* the device as they were, and a write with its transient buffer freed.    *)
C18_InterruptedLeavesNothing ==
    [][\A c \in Callers :
          (pc[c] = "lock" /\ op[c] \in DataOps /\ Live(handle[c])
              /\ pc'[c] = "ret") =>
              /\ res'[c].ret = "ERESTARTSYS"
              /\ xfers'[c] = 0
              /\ io_mutex[handle[c]] \notin {NULL, c}
              /\ tmp'[c] = NULL
              /\ UNCHANGED <<dev, urb, io_mutex, intfdata, registered, dpc,
                             devRx, bulkData, devValue>>]_vars

(* C18 witness: a write waiting for the lock has been interrupted while a   *)
(* read holds it.                                                           *)
C18_Witness ==
    \E c1, c2 \in Callers :
        /\ pc[c1] = "ret" /\ op[c1] = "write" /\ res[c1].ret = "ERESTARTSYS"
        /\ tmp[c1] = NULL /\ xfers[c1] = 0
        /\ handle[c1] = handle[c2] /\ Live(handle[c1])
        /\ pc[c2] = "locked" /\ op[c2] = "read" /\ io_mutex[handle[c2]] = c2

(* C19: the lock of a session is held only by a call that is between        *)
(* mutex_lock and mutex_unlock on that session, so a call that has returned *)
(* holds no lock; and under fair scheduling, for as long as its session     *)
(* exists, a caller waiting for the lock acquires it or is interrupted, and *)
(* every call returns.                                                      *)
C19_LockAlwaysReleased ==
    /\ [](\A i \in Intf :
            io_mutex[i] # NULL =>
                pc[io_mutex[i]] = "locked" /\ handle[io_mutex[i]] = i)
    /\ \A c \in Callers :
          (pc[c] = "lock" /\ ~Dangling(c)) ~>
              (pc[c] \in {"locked", "ret"} \/ Dangling(c))
    /\ \A c \in Callers :
          (pc[c] \in {"lock", "locked", "copy"} /\ ~Dangling(c)) ~>
              (pc[c] = "ret" \/ Dangling(c))

(* C19 witness: a GetStatus that failed (CommandFailed) has returned, and   *)
(* the other caller holds the lock of the same session after it.            *)
C19_Witness ==
    \E c1, c2 \in Callers :
        /\ pc[c1] = "ret" /\ op[c1] = "get" /\ res[c1].ret = "ETIMEDOUT"
        /\ handle[c1] = handle[c2] /\ Live(handle[c1])
        /\ pc[c2] = "locked" /\ io_mutex[handle[c2]] = c2

(* C20: the completion handler can run whenever the URB has been given      *)
(* back, whoever holds the lock, and it changes nothing but the URB: not    *)
(* the lock, the structure with its endpoints and buffers, the bulk-in      *)
(* data, the device, nor any call in flight.                                *)
C20_HandlerOutsideLock ==
    [][\A i \in Intf :
          /\ urb[i].st = "running" => ENABLED XserveFpIrq(i)
          /\ XserveFpIrq(i) =>
                UNCHANGED <<io_mutex, dev, bulkData, devRx, devValue, pc, op,
                            handle, arg, prog, tmp, xfers, res, intfdata,
                            registered, dpc>>]_vars

(* C20 witness: the handler has resubmitted the URB and returned while a    *)
(* read holds the lock of the session.                                      *)
C20_Witness ==
    \E i \in Intf, c \in Callers :
        /\ urb[i].st = "submitted" /\ urb[i].subs = 1
        /\ io_mutex[i] = c /\ pc[c] = "locked" /\ op[c] = "read"
        /\ Live(i)

(* C21 (as claimed): once probe has returned, every buffer allocated in the *)
(* endpoint loop is the one the session owns or has been freed: no live     *)
(* buffer is left without a pointer to it; after success the session owns   *)
(* one bulk-in buffer and an interrupt buffer exactly when it recorded an   *)
(* interrupt-in endpoint, after failure it owns none.                       *)
C21_DiscoveryBuffersOwnedOrFreed ==
    \A i \in Intf :
        probeRet[i] # "unset" =>
            /\ lost[i] = 0
            /\ (probeRet[i] = "OK" /\ dpc[i] = "none") =>
                  /\ dev[i].bulk_in_buffer = "live"
                  /\ dev[i].bulk_in_endpointAddr > DirIn
                  /\ dev[i].irq_buffer = "live" <=> dev[i].irq_endpointAddr # 0
            /\ probeRet[i] # "OK" =>
                  dev[i].bulk_in_buffer # "live" /\ dev[i].irq_buffer # "live"

====
